---------------------------- MODULE Spec2Model ----------------------------
(***************************************************************************)
(* State-machine model of the hotspot-bpf kernel programs:                 *)
(*   src/bpf/cpu_hotspot.c    handle_sched_switch (tracepoint sched_switch)*)
(*   src/bpf/memory_faults.c  record_fault        (kprobe handle_mm_fault) *)
(*                                                                         *)
(* Character buffers are modelled by their C-string content: the sequence  *)
(* of characters before the first NUL byte.  A buffer whose first byte is  *)
(* NUL is the empty sequence.                                              *)
(***************************************************************************)
EXTENDS Integers, Sequences, FiniteSets, TLC

\* ------------------------------------------------------------------ bounds

\* Number of events (handler invocations) a behaviour may contain.
MaxEvents == 3

\* Width of a u32 in the model (32 in the program); a u64 is twice as wide.
U32Bits == 8

\* Stand-ins for the three max_entries (10240, 2048, 4096 in the program).
PidStatsMaxEntries == 1
ContentionMaxEntries == 1
PageFaultsMaxEntries == 1

\* --------------------------------------------------------------- constants

COMM_LEN == 16
CGROUP_LEN == 64
E2BIG == 7
EFAULT == 14

U32 == 2 ^ U32Bits
U64 == 2 ^ (2 * U32Bits)

\* ------------------------------------------------------------ input domains

Cpus == {0, 1}
Pids == {0, 7, 42}
Timestamps == {100, 150, 400}

Min(a, b) == IF a < b THEN a ELSE b
Max(a, b) == IF a < b THEN b ELSE a

\* A `const char *` the resolver may meet: NULL, a pointer whose read faults,
\* or a readable NUL-terminated string.
NullName == [ptr |-> "null", str |-> <<>>]
BadName == [ptr |-> "bad", str |-> <<>>]
Str(s) == [ptr |-> "ok", str |-> s]

\* The current task as the helpers see it: its comm and the chain
\* task -> cgroups -> dfl_cgrp -> kn -> name / parent -> name.
Task(comm, has_task, has_cset, has_cgrp, has_kn, leaf, has_parent, parent) ==
    [comm |-> comm, has_task |-> has_task, has_cset |-> has_cset,
     has_cgrp |-> has_cgrp, has_kn |-> has_kn, leaf |-> leaf,
     has_parent |-> has_parent, parent |-> parent]

TaskLeaf == Task(<<"s", "h">>, TRUE, TRUE, TRUE, TRUE, Str(<<"w", "e", "b">>), TRUE, Str(<<"s", "y", "s">>))
TaskParent == Task(<<>>, TRUE, TRUE, TRUE, TRUE, NullName, TRUE, Str(<<"s", "y", "s">>))
TaskNoCgroup == Task(<<"s", "h">>, TRUE, FALSE, FALSE, FALSE, NullName, FALSE, NullName)
TaskRoot == Task(<<"s", "h">>, TRUE, TRUE, TRUE, TRUE, Str(<<>>), FALSE, NullName)

\* The tasks that may be current when a handler runs.
Tasks == {TaskLeaf, TaskParent, TaskNoCgroup, TaskRoot}

\* ------------------------------------------------------------------ helpers

\* write_placeholder(dst, len): the buffer afterwards.
write_placeholder(dst, len) ==
    IF len = 0 THEN dst
    ELSE SubSeq(<<"n", "/", "a">>, 1, Min(len, 3))

\* bpf_core_read_str(dst, len, src): the return value and the buffer afterwards.
\* Success returns the length copied including the NUL, so at least 1; a
\* faulting read returns a negative value and leaves the buffer zeroed.
bpf_core_read_str(len, src) ==
    IF src.ptr = "ok"
    THEN LET n == Min(Len(src.str), len - 1)
         IN [ret |-> n + 1, buf |-> SubSeq(src.str, 1, n)]
    ELSE [ret |-> 0 - EFAULT, buf |-> <<>>]

\* snapshot_cgroup(dst, len) run against the current task: the boolean it
\* returns and the buffer afterwards.
snapshot_cgroup(dst, len, task) ==
    IF len = 0 THEN [ok |-> FALSE, buf |-> dst]
    ELSE IF ~task.has_task THEN [ok |-> FALSE, buf |-> <<>>]
    ELSE IF ~task.has_cset THEN [ok |-> FALSE, buf |-> <<>>]
    ELSE IF ~task.has_cgrp THEN [ok |-> FALSE, buf |-> <<>>]
    ELSE IF ~task.has_kn THEN [ok |-> FALSE, buf |-> <<>>]
    ELSE LET leaf == bpf_core_read_str(len, task.leaf)
         IN IF task.leaf.ptr # "null" /\ leaf.ret > 0
            THEN [ok |-> TRUE, buf |-> leaf.buf]
            ELSE IF task.has_parent /\ task.parent.ptr # "null"
                 THEN LET par == bpf_core_read_str(len, task.parent)
                      IN [ok |-> par.ret > 0, buf |-> par.buf]
                 ELSE [ok |-> FALSE, buf |-> <<>>]

\* `if (!snapshot_cgroup(buf, len)) write_placeholder(buf, len);`
resolve_or_placeholder(dst, len, task) ==
    LET r == snapshot_cgroup(dst, len, task)
    IN IF r.ok THEN r.buf ELSE write_placeholder(r.buf, len)

\* bpf_get_current_comm(buf, size): the buffer afterwards.
bpf_get_current_comm(size, task) ==
    SubSeq(task.comm, 1, Min(Len(task.comm), size - 1))

\* Mutant of bpf_map_update_elem: a new key is inserted into a full map too.
bpf_map_update_elem_unbounded(map, key, val, max) ==
    IF key \in DOMAIN map
    THEN [map |-> [map EXCEPT ![key] = val], err |-> 0]
    ELSE [map |-> map @@ (key :> val), err |-> 0]

\* Mutant of bpf_map_update_elem: the fill is tested with > for >=.
bpf_map_update_elem_off_by_one(map, key, val, max) ==
    IF key \in DOMAIN map
    THEN [map |-> [map EXCEPT ![key] = val], err |-> 0]
    ELSE IF Cardinality(DOMAIN map) > max
         THEN [map |-> map, err |-> 0 - E2BIG]
         ELSE [map |-> map @@ (key :> val), err |-> 0]

\* bpf_map_update_elem(map, key, val, BPF_ANY) on a hash map of `max` entries:
\* an existing key is overwritten, a new key is inserted unless the map is
\* full, in which case the map is unchanged and -E2BIG is returned.
bpf_map_update_elem(map, key, val, max) ==
    IF key \in DOMAIN map
    THEN [map |-> [map EXCEPT ![key] = val], err |-> 0]
    ELSE IF Cardinality(DOMAIN map) >= max
         THEN [map |-> map, err |-> 0 - E2BIG]
         ELSE [map |-> map @@ (key :> val), err |-> 0]

\* `((u64)victim << 32) | aggressor`
PairKey(victim, aggressor) == (victim * U32 + aggressor) % U64
KeyVictim(pair) == pair \div U32
KeyAggressor(pair) == pair % U32

\* ------------------------------------------------------------------- state

VARIABLES
    cpu_state,        \* per-CPU array: cpu -> [pid, ts]
    pid_stats,        \* hash: pid -> [cpu_time_ns, comm, cgroup]
    cpu_contention,   \* hash: pair -> count
    page_faults,      \* hash: pid -> [faults, cgroup]
    pc,               \* cpu -> where the invocation running on it stands
    loc,              \* cpu -> the locals of the invocation running on it
    retval,           \* the value the last completed invocation returned
    log,              \* the events delivered so far, in order
    resolver          \* a call of the resolver on its own: arguments, position, result

vars == <<cpu_state, pid_stats, cpu_contention, page_faults, pc, loc, retval, log, resolver>>

Empty == [k \in {} |-> 0]
NoLocals == [ts |-> 0, prev_pid |-> 0, next_pid |-> 0, pid |-> 0]

\* No resolver call is being followed on its own.
NoCall == [task |-> TaskNoCgroup, len |-> 0, at |-> "none", ok |-> FALSE, buf |-> <<>>]

\* The maps as the loader creates them, and no invocation running.
MapsInit ==
    /\ cpu_state = [c \in Cpus |-> [pid |-> 0, ts |-> 0]]
    /\ pid_stats = Empty
    /\ cpu_contention = Empty
    /\ page_faults = Empty
    /\ pc = [c \in Cpus |-> "idle"]
    /\ loc = [c \in Cpus |-> NoLocals]
    /\ retval = 0
    /\ log = <<>>

Init == MapsInit /\ resolver = NoCall

SwitchEvent(cpu, ts, prev_pid, next_pid) ==
    [kind |-> "switch", cpu |-> cpu, ts |-> ts, prev_pid |-> prev_pid, next_pid |-> next_pid]
FaultEvent(pid) == [kind |-> "fault", pid |-> pid]

\* ----------------------------------------------- the branches of the handlers
\* Each yields the table afterwards and the error of the map update it made
\* (0 when it made none).

\* cpu_hotspot.c 102-103: the pair was found, `(*cnt)++`.
contention_hit(tab, pair) ==
    [map |-> [tab EXCEPT ![pair] = (@ + 1) % U64], err |-> 0]

\* cpu_hotspot.c 104-107: the pair was not found, insert 1.
contention_miss(tab, pair) == bpf_map_update_elem(tab, pair, 1, ContentionMaxEntries)

\* Mutant of record_contention: the pair is keyed without its direction.
record_contention_unordered(tab, victim, aggressor) ==
    IF victim # 0 /\ aggressor # 0
    THEN LET pair == PairKey(Min(victim, aggressor), Max(victim, aggressor))
         IN IF pair \in DOMAIN tab THEN contention_hit(tab, pair)
            ELSE contention_miss(tab, pair)
    ELSE [map |-> tab, err |-> 0]

\* Mutant of record_contention: the guard tests the victim only.
record_contention_victim_only(tab, victim, aggressor) ==
    IF victim # 0
    THEN LET pair == PairKey(victim, aggressor)
         IN IF pair \in DOMAIN tab THEN contention_hit(tab, pair)
            ELSE contention_miss(tab, pair)
    ELSE [map |-> tab, err |-> 0]

\* cpu_hotspot.c 99-108
record_contention(tab, victim, aggressor) ==
    IF victim # 0 /\ aggressor # 0
    THEN LET pair == PairKey(victim, aggressor)
         IN IF pair \in DOMAIN tab THEN contention_hit(tab, pair)
            ELSE contention_miss(tab, pair)
    ELSE [map |-> tab, err |-> 0]

\* Mutant of Delta: the stored timestamp is not subtracted.
Delta_since_boot(ts, st) == ts % U64

\* Mutant of Delta: a timestamp before the stored one gives 0.
Delta_clamped(ts, st) == IF ts < st.ts THEN 0 ELSE (ts - st.ts) % U64

\* cpu_hotspot.c 112: `u64 delta = ts - st->ts`
Delta(ts, st) == (ts - st.ts) % U64

\* cpu_hotspot.c 116-122: no entry for pid, build one and insert it.
pid_stat_miss(tab, pid, delta, task) ==
    LET new_ps == [cpu_time_ns |-> delta,
                   comm |-> bpf_get_current_comm(COMM_LEN, task),
                   cgroup |-> resolve_or_placeholder(<<>>, CGROUP_LEN, task)]
    IN bpf_map_update_elem(tab, pid, new_ps, PidStatsMaxEntries)

\* Mutant of pid_stat_hit: `=` for `+=`.
pid_stat_hit_assign(tab, pid, delta, task) ==
    LET ps == tab[pid]
    IN [map |-> [tab EXCEPT ![pid] =
                   [cpu_time_ns |-> delta,
                    cgroup |-> IF ps.cgroup = <<>>
                               THEN resolve_or_placeholder(ps.cgroup, CGROUP_LEN, task)
                               ELSE ps.cgroup,
                    comm |-> IF ps.comm = <<>>
                             THEN bpf_get_current_comm(COMM_LEN, task)
                             ELSE ps.comm]],
        err |-> 0]

\* Mutant of pid_stat_hit: the cgroup is resolved on every hit.
pid_stat_hit_refresh(tab, pid, delta, task) ==
    LET ps == tab[pid]
    IN [map |-> [tab EXCEPT ![pid] =
                   [cpu_time_ns |-> (ps.cpu_time_ns + delta) % U64,
                    cgroup |-> resolve_or_placeholder(ps.cgroup, CGROUP_LEN, task),
                    comm |-> IF ps.comm = <<>>
                             THEN bpf_get_current_comm(COMM_LEN, task)
                             ELSE ps.comm]],
        err |-> 0]

\* Mutant of pid_stat_hit: an empty cgroup or comm is not filled in on a hit.
pid_stat_hit_no_retry(tab, pid, delta, task) ==
    LET ps == tab[pid]
    IN [map |-> [tab EXCEPT ![pid] =
                   [cpu_time_ns |-> (ps.cpu_time_ns + delta) % U64,
                    cgroup |-> ps.cgroup,
                    comm |-> ps.comm]],
        err |-> 0]

\* cpu_hotspot.c 123-129: the entry exists, update it in place.
pid_stat_hit(tab, pid, delta, task) ==
    LET ps == tab[pid]
    IN [map |-> [tab EXCEPT ![pid] =
                   [cpu_time_ns |-> (ps.cpu_time_ns + delta) % U64,
                    cgroup |-> IF ps.cgroup = <<>>
                               THEN resolve_or_placeholder(ps.cgroup, CGROUP_LEN, task)
                               ELSE ps.cgroup,
                    comm |-> IF ps.comm = <<>>
                             THEN bpf_get_current_comm(COMM_LEN, task)
                             ELSE ps.comm]],
        err |-> 0]

\* Mutant of record_switch: the stored pid is charged even when it is 0.
record_switch_unguarded(tab, st, ts, task) ==
    IF st.pid \in DOMAIN tab
    THEN pid_stat_hit(tab, st.pid, Delta(ts, st), task)
    ELSE pid_stat_miss(tab, st.pid, Delta(ts, st), task)

\* cpu_hotspot.c 111-130
record_switch(tab, st, ts, task) ==
    IF st.pid # 0
    THEN IF st.pid \in DOMAIN tab
         THEN pid_stat_hit(tab, st.pid, Delta(ts, st), task)
         ELSE pid_stat_miss(tab, st.pid, Delta(ts, st), task)
    ELSE [map |-> tab, err |-> 0]

\* Mutant of fault_hit: the cgroup is resolved on every hit.
fault_hit_refresh(tab, pid, task) ==
    LET entry == tab[pid]
    IN [map |-> [tab EXCEPT ![pid] =
                   [faults |-> (entry.faults + 1) % U64,
                    cgroup |-> resolve_or_placeholder(entry.cgroup, CGROUP_LEN, task)]],
        err |-> 0]

\* memory_faults.c 72-75: the entry exists.
fault_hit(tab, pid, task) ==
    LET entry == tab[pid]
    IN [map |-> [tab EXCEPT ![pid] =
                   [faults |-> (entry.faults + 1) % U64,
                    cgroup |-> IF entry.cgroup = <<>>
                               THEN resolve_or_placeholder(entry.cgroup, CGROUP_LEN, task)
                               ELSE entry.cgroup]],
        err |-> 0]

\* memory_faults.c 76-82: no entry, build one and insert it.
fault_miss(tab, pid, task) ==
    LET init == [faults |-> 1,
                 cgroup |-> resolve_or_placeholder(<<>>, CGROUP_LEN, task)]
    IN bpf_map_update_elem(tab, pid, init, PageFaultsMaxEntries)

\* memory_faults.c 67-82
count_fault(tab, pid, task) ==
    IF pid = 0 THEN [map |-> tab, err |-> 0]
    ELSE IF pid \in DOMAIN tab THEN fault_hit(tab, pid, task)
    ELSE fault_miss(tab, pid, task)

\* The value handle_sched_switch returns (cpu_hotspot.c 137), whatever the
\* two map updates answered.
sched_switch_return(contention_err, stat_err) == 0

\* Mutant of record_fault_return: the error of the map update is returned.
record_fault_return_err(err) == err

\* The value record_fault returns (memory_faults.c 69, 84), whatever the map
\* update answered.
record_fault_return(err) == 0

\* cpu_hotspot.c 133-135: the per-CPU slot after the handler.
next_cpu_state(next_pid, ts) == [pid |-> next_pid, ts |-> ts]

\* ------------------------------------- the handlers, one invocation at a time

\* Mutant of handle_sched_switch: it returns at once when the insert into
\* cpu_contention is refused.
handle_sched_switch_bail(cpu, ts, prev_pid, next_pid, task) ==
    /\ Len(log) < MaxEvents
    /\ prev_pid # next_pid
    /\ \A c \in Cpus : pc[c] = "idle"
    /\ LET st == cpu_state[cpu]
           c == record_contention(cpu_contention, prev_pid, next_pid)
           s == record_switch(pid_stats, st, ts, task)
       IN /\ cpu_contention' = c.map
          /\ pid_stats' = IF c.err # 0 THEN pid_stats ELSE s.map
          /\ cpu_state' = IF c.err # 0 THEN cpu_state
                          ELSE [cpu_state EXCEPT ![cpu] = next_cpu_state(next_pid, ts)]
          /\ retval' = sched_switch_return(c.err, s.err)
    /\ log' = Append(log, SwitchEvent(cpu, ts, prev_pid, next_pid))
    /\ UNCHANGED <<page_faults, pc, loc, resolver>>

\* Mutant of handle_sched_switch: the per-CPU slot is left alone when the
\* insert into pid_stats is refused.
handle_sched_switch_skip_on_drop(cpu, ts, prev_pid, next_pid, task) ==
    /\ Len(log) < MaxEvents
    /\ prev_pid # next_pid
    /\ \A c \in Cpus : pc[c] = "idle"
    /\ LET st == cpu_state[cpu]
           c == record_contention(cpu_contention, prev_pid, next_pid)
           s == record_switch(pid_stats, st, ts, task)
       IN /\ cpu_contention' = c.map
          /\ pid_stats' = s.map
          /\ cpu_state' = IF s.err # 0 THEN cpu_state
                          ELSE [cpu_state EXCEPT ![cpu] = next_cpu_state(next_pid, ts)]
          /\ retval' = sched_switch_return(c.err, s.err)
    /\ log' = Append(log, SwitchEvent(cpu, ts, prev_pid, next_pid))
    /\ UNCHANGED <<page_faults, pc, loc, resolver>>

\* Mutant of handle_sched_switch: the interval is charged to the incoming pid.
handle_sched_switch_charge_incoming(cpu, ts, prev_pid, next_pid, task) ==
    /\ Len(log) < MaxEvents
    /\ prev_pid # next_pid
    /\ \A c \in Cpus : pc[c] = "idle"
    /\ LET st == cpu_state[cpu]
           c == record_contention(cpu_contention, prev_pid, next_pid)
           s == record_switch(pid_stats, [pid |-> next_pid, ts |-> st.ts], ts, task)
       IN /\ cpu_contention' = c.map
          /\ pid_stats' = s.map
          /\ cpu_state' = [cpu_state EXCEPT ![cpu] = next_cpu_state(next_pid, ts)]
          /\ retval' = sched_switch_return(c.err, s.err)
    /\ log' = Append(log, SwitchEvent(cpu, ts, prev_pid, next_pid))
    /\ UNCHANGED <<page_faults, pc, loc, resolver>>

\* handle_sched_switch run to completion on `cpu`.  The per-CPU array lookup
\* with key 0 cannot miss, so the early return of line 94 is never taken.
\* The tracepoint fires when the scheduler switches between two different
\* tasks, so the two pids of an event differ.
handle_sched_switch(cpu, ts, prev_pid, next_pid, task) ==
    /\ Len(log) < MaxEvents
    /\ prev_pid # next_pid
    /\ \A c \in Cpus : pc[c] = "idle"
    /\ LET st == cpu_state[cpu]
           c == record_contention(cpu_contention, prev_pid, next_pid)
           s == record_switch(pid_stats, st, ts, task)
       IN /\ cpu_contention' = c.map
          /\ pid_stats' = s.map
          /\ cpu_state' = [cpu_state EXCEPT ![cpu] = next_cpu_state(next_pid, ts)]
          /\ retval' = sched_switch_return(c.err, s.err)
    /\ log' = Append(log, SwitchEvent(cpu, ts, prev_pid, next_pid))
    /\ UNCHANGED <<page_faults, pc, loc, resolver>>

\* record_fault run to completion with `pid` current.
record_fault(pid, task) ==
    /\ Len(log) < MaxEvents
    /\ \A c \in Cpus : pc[c] = "idle"
    /\ LET f == count_fault(page_faults, pid, task)
       IN /\ page_faults' = f.map
          /\ retval' = record_fault_return(f.err)
    /\ log' = Append(log, FaultEvent(pid))
    /\ UNCHANGED <<cpu_state, pid_stats, cpu_contention, pc, loc, resolver>>

SwitchNext ==
    \E cpu \in Cpus, ts \in Timestamps, prev_pid \in Pids, next_pid \in Pids, task \in Tasks :
        handle_sched_switch(cpu, ts, prev_pid, next_pid, task)

FaultNext ==
    \E pid \in Pids, task \in Tasks : record_fault(pid, task)

Next == SwitchNext \/ FaultNext

Spec == Init /\ [][Next]_vars

\* ---------------------------- the handlers, interleaved between the CPUs
\* An invocation is cut at its accesses to the shared hash maps: a lookup, the
\* in-place update through the pointer the lookup returned, and
\* bpf_map_update_elem are one step each.  The per-CPU slot and the locals are
\* private to the CPU.

Locals(ts, prev_pid, next_pid, pid) ==
    [ts |-> ts, prev_pid |-> prev_pid, next_pid |-> next_pid, pid |-> pid]

\* cpu_hotspot.c 89-101: entry, and the lookup in cpu_contention.
switch_begin(cpu, ts, prev_pid, next_pid) ==
    /\ Len(log) < MaxEvents
    /\ prev_pid # next_pid
    /\ pc[cpu] = "idle"
    /\ loc' = [loc EXCEPT ![cpu] = Locals(ts, prev_pid, next_pid, 0)]
    /\ pc' = [pc EXCEPT ![cpu] =
                IF prev_pid # 0 /\ next_pid # 0
                THEN IF PairKey(prev_pid, next_pid) \in DOMAIN cpu_contention
                     THEN "cnt_found" ELSE "cnt_absent"
                ELSE "stat_lookup"]
    /\ log' = Append(log, SwitchEvent(cpu, ts, prev_pid, next_pid))
    /\ UNCHANGED <<cpu_state, pid_stats, cpu_contention, page_faults, retval, resolver>>

\* cpu_hotspot.c 103: `(*cnt)++` on the value the lookup found.
switch_cnt_incr(cpu) ==
    /\ pc[cpu] = "cnt_found"
    /\ cpu_contention' =
         contention_hit(cpu_contention, PairKey(loc[cpu].prev_pid, loc[cpu].next_pid)).map
    /\ pc' = [pc EXCEPT ![cpu] = "stat_lookup"]
    /\ UNCHANGED <<cpu_state, pid_stats, page_faults, loc, retval, log, resolver>>

\* cpu_hotspot.c 105-106: the update after a lookup that found nothing.
switch_cnt_insert(cpu) ==
    /\ pc[cpu] = "cnt_absent"
    /\ cpu_contention' =
         contention_miss(cpu_contention, PairKey(loc[cpu].prev_pid, loc[cpu].next_pid)).map
    /\ pc' = [pc EXCEPT ![cpu] = "stat_lookup"]
    /\ UNCHANGED <<cpu_state, pid_stats, page_faults, loc, retval, log, resolver>>

\* cpu_hotspot.c 111-115 (and 133-137 when the stored pid is 0).
switch_stat_lookup(cpu) ==
    /\ pc[cpu] = "stat_lookup"
    /\ LET st == cpu_state[cpu]
       IN IF st.pid = 0
          THEN /\ cpu_state' = [cpu_state EXCEPT ![cpu] =
                                  next_cpu_state(loc[cpu].next_pid, loc[cpu].ts)]
               /\ retval' = sched_switch_return(0, 0)
               /\ pc' = [pc EXCEPT ![cpu] = "idle"]
               /\ loc' = [loc EXCEPT ![cpu] = NoLocals]
          ELSE /\ pc' = [pc EXCEPT ![cpu] =
                           IF st.pid \in DOMAIN pid_stats THEN "ps_found" ELSE "ps_absent"]
               /\ UNCHANGED <<cpu_state, retval, loc>>
    /\ UNCHANGED <<pid_stats, cpu_contention, page_faults, log, resolver>>

\* cpu_hotspot.c 124-128 and 133-137: the in-place update, then the exit.
switch_stat_update(cpu, task) ==
    /\ pc[cpu] = "ps_found"
    /\ LET st == cpu_state[cpu]
           s == pid_stat_hit(pid_stats, st.pid, Delta(loc[cpu].ts, st), task)
       IN /\ pid_stats' = s.map
          /\ retval' = sched_switch_return(0, s.err)
    /\ cpu_state' = [cpu_state EXCEPT ![cpu] =
                       next_cpu_state(loc[cpu].next_pid, loc[cpu].ts)]
    /\ pc' = [pc EXCEPT ![cpu] = "idle"]
    /\ loc' = [loc EXCEPT ![cpu] = NoLocals]
    /\ UNCHANGED <<cpu_contention, page_faults, log, resolver>>

\* cpu_hotspot.c 117-122 and 133-137: the insert, then the exit.
switch_stat_insert(cpu, task) ==
    /\ pc[cpu] = "ps_absent"
    /\ LET st == cpu_state[cpu]
           s == pid_stat_miss(pid_stats, st.pid, Delta(loc[cpu].ts, st), task)
       IN /\ pid_stats' = s.map
          /\ retval' = sched_switch_return(0, s.err)
    /\ cpu_state' = [cpu_state EXCEPT ![cpu] =
                       next_cpu_state(loc[cpu].next_pid, loc[cpu].ts)]
    /\ pc' = [pc EXCEPT ![cpu] = "idle"]
    /\ loc' = [loc EXCEPT ![cpu] = NoLocals]
    /\ UNCHANGED <<cpu_contention, page_faults, log, resolver>>

\* memory_faults.c 67-71: entry, the zero guard and the lookup in page_faults.
fault_begin(cpu, pid) ==
    /\ Len(log) < MaxEvents
    /\ pc[cpu] = "idle"
    /\ log' = Append(log, FaultEvent(pid))
    /\ IF pid = 0
       THEN /\ retval' = record_fault_return(0)
            /\ UNCHANGED <<pc, loc>>
       ELSE /\ loc' = [loc EXCEPT ![cpu] = Locals(0, 0, 0, pid)]
            /\ pc' = [pc EXCEPT ![cpu] =
                        IF pid \in DOMAIN page_faults THEN "pf_found" ELSE "pf_absent"]
            /\ UNCHANGED retval
    /\ UNCHANGED <<cpu_state, pid_stats, cpu_contention, page_faults, resolver>>

\* memory_faults.c 73-75 and 84: the in-place update, then the exit.
fault_update(cpu, task) ==
    /\ pc[cpu] = "pf_found"
    /\ LET f == fault_hit(page_faults, loc[cpu].pid, task)
       IN /\ page_faults' = f.map
          /\ retval' = record_fault_return(f.err)
    /\ pc' = [pc EXCEPT ![cpu] = "idle"]
    /\ loc' = [loc EXCEPT ![cpu] = NoLocals]
    /\ UNCHANGED <<cpu_state, pid_stats, cpu_contention, log, resolver>>

\* memory_faults.c 77-81 and 84: the insert, then the exit.
fault_insert(cpu, task) ==
    /\ pc[cpu] = "pf_absent"
    /\ LET f == fault_miss(page_faults, loc[cpu].pid, task)
       IN /\ page_faults' = f.map
          /\ retval' = record_fault_return(f.err)
    /\ pc' = [pc EXCEPT ![cpu] = "idle"]
    /\ loc' = [loc EXCEPT ![cpu] = NoLocals]
    /\ UNCHANGED <<cpu_state, pid_stats, cpu_contention, log, resolver>>

SwitchBegin ==
    \E cpu \in Cpus, ts \in Timestamps, prev_pid \in Pids, next_pid \in Pids :
        switch_begin(cpu, ts, prev_pid, next_pid)
SwitchCntIncr == \E cpu \in Cpus : switch_cnt_incr(cpu)
SwitchCntInsert == \E cpu \in Cpus : switch_cnt_insert(cpu)
SwitchStatLookup == \E cpu \in Cpus : switch_stat_lookup(cpu)
SwitchStatUpdate == \E cpu \in Cpus, task \in Tasks : switch_stat_update(cpu, task)
SwitchStatInsert == \E cpu \in Cpus, task \in Tasks : switch_stat_insert(cpu, task)
FaultBegin == \E cpu \in Cpus, pid \in Pids : fault_begin(cpu, pid)
FaultUpdate == \E cpu \in Cpus, task \in Tasks : fault_update(cpu, task)
FaultInsert == \E cpu \in Cpus, task \in Tasks : fault_insert(cpu, task)

NextConc ==
    \/ SwitchBegin
    \/ SwitchCntIncr
    \/ SwitchCntInsert
    \/ SwitchStatLookup
    \/ SwitchStatUpdate
    \/ SwitchStatInsert
    \/ FaultBegin
    \/ FaultUpdate
    \/ FaultInsert

SpecConc == Init /\ [][NextConc]_vars

\* ------------------------------------------------ the resolver on its own
\* The two call sites of the pair `if (!snapshot_cgroup(buf, len))
\* write_placeholder(buf, len);` pass a zeroed buffer of CGROUP_LEN bytes.  The
\* task is whatever the kernel has: every link of the chain present or NULL,
\* every name NULL, unreadable, empty, short, or longer than the buffer.

\* A name of CGROUP_LEN + 2 characters (kernfs names may be up to 255 long).
LongName == [i \in 1..(CGROUP_LEN + 2) |-> "x"]

LeafNames == {NullName, BadName, Str(<<>>), Str(<<"w", "e", "b">>), Str(LongName)}
ParentNames == {NullName, BadName, Str(<<>>), Str(<<"s", "y", "s">>), Str(LongName)}
GrandNames == {NullName, Str(<<"t", "o", "p">>)}

\* A task together with the name of the grandparent node, which the code
\* never reads.
ResolverTasks ==
    {[comm |-> <<"s", "h">>, has_task |-> ht, has_cset |-> hs, has_cgrp |-> hg,
      has_kn |-> hk, leaf |-> l, has_parent |-> hp, parent |-> p, grand |-> g] :
        ht \in BOOLEAN, hs \in BOOLEAN, hg \in BOOLEAN, hk \in BOOLEAN,
        l \in LeafNames, hp \in BOOLEAN, p \in ParentNames, g \in GrandNames}

ResolverInit ==
    /\ MapsInit
    /\ resolver \in {[task |-> t, len |-> CGROUP_LEN, at |-> "entry", ok |-> FALSE, buf |-> <<>>] :
                        t \in ResolverTasks}

\* cpu_hotspot.c 120, memory_faults.c 79: the call of snapshot_cgroup.
resolver_snapshot ==
    /\ resolver.at = "entry"
    /\ LET r == snapshot_cgroup(resolver.buf, resolver.len, resolver.task)
       IN resolver' = [resolver EXCEPT !.at = IF r.ok THEN "done" ELSE "failed",
                                       !.ok = r.ok, !.buf = r.buf]
    /\ UNCHANGED <<cpu_state, pid_stats, cpu_contention, page_faults, pc, loc, retval, log>>

\* cpu_hotspot.c 121, memory_faults.c 80: write_placeholder after a failure.
resolver_placeholder ==
    /\ resolver.at = "failed"
    /\ resolver' = [resolver EXCEPT !.at = "done",
                                    !.buf = write_placeholder(resolver.buf, resolver.len)]
    /\ UNCHANGED <<cpu_state, pid_stats, cpu_contention, page_faults, pc, loc, retval, log>>

NextResolver == resolver_snapshot \/ resolver_placeholder

SpecResolver == ResolverInit /\ [][NextResolver]_vars

\* ------------------------------------------------- what the log says happened

Sentinel == <<"n", "/", "a">>
NonZeroPids == Pids \ {0}
AllIdle == \A c \in Cpus : pc[c] = "idle"

IsSwitch(e) == e.kind = "switch"
IsFault(e) == e.kind = "fault"
LastEvent == log[Len(log)]

\* The context-switch events delivered to `cpu`, in order.
SwitchesOn(cpu) == SelectSeq(log, LAMBDA e : IsSwitch(e) /\ e.cpu = cpu)

\* Over the consecutive pairs (i, i+1) of `s` from index i on whose first event
\* made x the running entity: the sum of ts_{i+1} - ts_i in u64 arithmetic.
RECURSIVE IntervalSum(_, _, _)
IntervalSum(s, x, i) ==
    IF i >= Len(s) THEN 0
    ELSE ((IF s[i].next_pid = x THEN (s[i + 1].ts - s[i].ts) % U64 ELSE 0)
          + IntervalSum(s, x, i + 1)) % U64

\* ... and the number of those pairs.
RECURSIVE IntervalCount(_, _, _)
IntervalCount(s, x, i) ==
    IF i >= Len(s) THEN 0
    ELSE (IF s[i].next_pid = x THEN 1 ELSE 0) + IntervalCount(s, x, i + 1)

RECURSIVE SumOver(_, _)
SumOver(f, S) ==
    IF S = {} THEN 0
    ELSE LET c == CHOOSE c \in S : TRUE IN f[c] + SumOver(f, S \ {c})

\* The time entity x ran, over all CPUs, and the number of intervals it ran.
RanNs(x) == SumOver([c \in Cpus |-> IntervalSum(SwitchesOn(c), x, 1)], Cpus) % U64
RanTimes(x) == SumOver([c \in Cpus |-> IntervalCount(SwitchesOn(c), x, 1)], Cpus)

\* The number of events of the log that satisfy P.
CountEvents(P(_)) == Len(SelectSeq(log, P))

\* Calls of the contention counter for the pair (v, a), fault events for pid.
ContentionCalls(v, a) ==
    CountEvents(LAMBDA e : IsSwitch(e) /\ e.prev_pid = v /\ e.next_pid = a)
FaultEvents(pid) == CountEvents(LAMBDA e : IsFault(e) /\ e.pid = pid)

\* No insert was ever refused: the keys ever asked for fit the table.
PidStatsNeverFull ==
    Cardinality({x \in NonZeroPids : RanTimes(x) > 0}) <= PidStatsMaxEntries
ContentionNeverFull ==
    Cardinality({p \in NonZeroPids \X NonZeroPids : ContentionCalls(p[1], p[2]) > 0})
        <= ContentionMaxEntries
PageFaultsNeverFull ==
    Cardinality({x \in NonZeroPids : FaultEvents(x) > 0}) <= PageFaultsMaxEntries

\* All context-switch events of the log were delivered to one CPU.
SingleUnit == \E c \in Cpus : \A i \in 1..Len(log) : IsSwitch(log[i]) => log[i].cpu = c

\* ------------------------------------------------------------------ claims

\* C1: with handlers run one at a time, every pid_stats entry holds the sum
\* (u64 arithmetic) of ts_{i+1} - ts_i over the consecutive event pairs of a
\* CPU whose first event made that pid the running one; an entry exists only
\* for a pid with such an interval, and, when no insert was refused, for every
\* such pid.  0 has no entry.
C1_CpuTimeIsIntervalSum ==
    /\ \A x \in DOMAIN pid_stats :
          /\ x # 0
          /\ RanTimes(x) > 0
          /\ pid_stats[x].cpu_time_ns = RanNs(x)
    /\ PidStatsNeverFull =>
          \A x \in NonZeroPids : RanTimes(x) > 0 => x \in DOMAIN pid_stats

\* C1 witness: three events on one CPU, pid 7 ran 100..150 and 150..400.
C1_Witness ==
    /\ SingleUnit
    /\ RanTimes(7) = 2
    /\ 7 \in DOMAIN pid_stats
    /\ pid_stats[7].cpu_time_ns = 300

\* C2: 0 is a key of neither pid_stats nor page_faults, and no cpu_contention
\* key has a zero victim half or a zero aggressor half.
C2_ZeroNeverAKey ==
    /\ 0 \notin DOMAIN pid_stats
    /\ 0 \notin DOMAIN page_faults
    /\ \A k \in DOMAIN cpu_contention : KeyVictim(k) # 0 /\ KeyAggressor(k) # 0

\* C2 witness: events carrying the id 0 were handled and the tables are in use.
C2_Witness ==
    /\ \E i \in 1..Len(log) : IsFault(log[i]) /\ log[i].pid = 0
    /\ \E i \in 1..Len(log) : IsSwitch(log[i]) /\ log[i].prev_pid = 0 /\ log[i].next_pid # 0
    /\ \E i \in 1..Len(log) : IsSwitch(log[i]) /\ log[i].next_pid = 0
    /\ pid_stats # Empty

\* C3: with handlers run one at a time, a non-empty cgroup or comm of a
\* pid_stats entry, and a non-empty cgroup of a page_faults entry, is the same
\* after every step, and the entry stays.
C3_FrozenOnceNonEmpty ==
    [][ /\ \A k \in DOMAIN pid_stats :
              /\ k \in DOMAIN pid_stats'
              /\ pid_stats[k].cgroup # <<>> => pid_stats'[k].cgroup = pid_stats[k].cgroup
              /\ pid_stats[k].comm # <<>> => pid_stats'[k].comm = pid_stats[k].comm
        /\ \A k \in DOMAIN page_faults :
              /\ k \in DOMAIN page_faults'
              /\ page_faults[k].cgroup # <<>> => page_faults'[k].cgroup = page_faults[k].cgroup
      ]_vars

\* C3 witness: an entry that was created and then hit again holds a sentinel.
C3_Witness ==
    \E k \in DOMAIN pid_stats :
        /\ RanTimes(k) >= 2
        /\ pid_stats[k].cgroup = Sentinel
        /\ pid_stats[k].comm # <<>>

\* C4: with the handlers of different CPUs interleaved between their map
\* operations, once every invocation has returned and no insert was refused,
\* each counter holds what the delivered events add up to: cpu_contention the
\* number of events with that (prev, next), page_faults the number of fault
\* events of the pid, pid_stats the time the pid ran.
C4_NoLostUpdate ==
    (AllIdle /\ PidStatsNeverFull /\ ContentionNeverFull /\ PageFaultsNeverFull) =>
        /\ \A v \in NonZeroPids, a \in NonZeroPids :
              ContentionCalls(v, a) > 0 =>
                  /\ PairKey(v, a) \in DOMAIN cpu_contention
                  /\ cpu_contention[PairKey(v, a)] = ContentionCalls(v, a)
        /\ \A e \in NonZeroPids :
              FaultEvents(e) > 0 =>
                  /\ e \in DOMAIN page_faults
                  /\ page_faults[e].faults = FaultEvents(e)
        /\ \A x \in NonZeroPids :
              RanTimes(x) > 0 =>
                  /\ x \in DOMAIN pid_stats
                  /\ pid_stats[x].cpu_time_ns = RanNs(x)

\* C5: an event whose key is absent from a table that holds its maximum
\* number of entries leaves the table unchanged, an event whose key is present
\* adds its increment whatever the fill of the table, and the handler returns
\* 0 either way; for cpu_contention, pid_stats and page_faults alike.
C5_FullTableDropsInsertKeepsUpdate ==
    [][ log' # log =>
          LET e == log'[Len(log')]
          IN /\ retval' = 0
             /\ (IsSwitch(e) /\ e.prev_pid # 0 /\ e.next_pid # 0) =>
                   LET k == PairKey(e.prev_pid, e.next_pid)
                   IN /\ (/\ k \notin DOMAIN cpu_contention
                          /\ Cardinality(DOMAIN cpu_contention) = ContentionMaxEntries)
                         => cpu_contention' = cpu_contention
                      /\ k \in DOMAIN cpu_contention =>
                            /\ k \in DOMAIN cpu_contention'
                            /\ cpu_contention'[k] = (cpu_contention[k] + 1) % U64
             /\ (IsSwitch(e) /\ cpu_state[e.cpu].pid # 0) =>
                   LET x == cpu_state[e.cpu].pid
                       d == (e.ts - cpu_state[e.cpu].ts) % U64
                   IN /\ (/\ x \notin DOMAIN pid_stats
                          /\ Cardinality(DOMAIN pid_stats) = PidStatsMaxEntries)
                         => pid_stats' = pid_stats
                      /\ x \in DOMAIN pid_stats =>
                            /\ x \in DOMAIN pid_stats'
                            /\ pid_stats'[x].cpu_time_ns = (pid_stats[x].cpu_time_ns + d) % U64
             /\ (IsFault(e) /\ e.pid # 0) =>
                   /\ (/\ e.pid \notin DOMAIN page_faults
                       /\ Cardinality(DOMAIN page_faults) = PageFaultsMaxEntries)
                      => page_faults' = page_faults
                   /\ e.pid \in DOMAIN page_faults =>
                         /\ e.pid \in DOMAIN page_faults'
                         /\ page_faults'[e.pid].faults = (page_faults[e.pid].faults + 1) % U64
      ]_vars

\* C5 witness: page_faults is full, its entry was incremented while full, and
\* the last event's insert of another pid was refused.
C5_Witness ==
    /\ Len(log) = 3
    /\ IsFault(LastEvent) /\ LastEvent.pid # 0
    /\ LastEvent.pid \notin DOMAIN page_faults
    /\ Cardinality(DOMAIN page_faults) = PageFaultsMaxEntries
    /\ \E k \in DOMAIN page_faults : page_faults[k].faults = 2
    /\ retval = 0

\* C6 as claimed: a switch event with non-zero prev = v and next = a, v # a,
\* increments the counter of (v << 32) | a, or creates it with 1 when absent,
\* and changes nothing else of cpu_contention.
C6_Original ==
    [][ (log' # log /\ IsSwitch(log'[Len(log')])) =>
          LET e == log'[Len(log')]
              k == PairKey(e.prev_pid, e.next_pid)
          IN (e.prev_pid # 0 /\ e.next_pid # 0 /\ e.prev_pid # e.next_pid) =>
                cpu_contention' = IF k \in DOMAIN cpu_contention
                                  THEN [cpu_contention EXCEPT ![k] = (@ + 1) % U64]
                                  ELSE cpu_contention @@ (k :> 1)
      ]_vars

\* C6 amended: the same, except that an absent key is created only when
\* cpu_contention is not full; when it is full nothing changes.  The counter
\* of the reversed pair (a << 32) | v is never touched.
C6_Directional ==
    [][ (log' # log /\ IsSwitch(log'[Len(log')])) =>
          LET e == log'[Len(log')]
              k == PairKey(e.prev_pid, e.next_pid)
              r == PairKey(e.next_pid, e.prev_pid)
          IN (e.prev_pid # 0 /\ e.next_pid # 0 /\ e.prev_pid # e.next_pid) =>
                /\ cpu_contention' =
                      IF k \in DOMAIN cpu_contention
                      THEN [cpu_contention EXCEPT ![k] = (@ + 1) % U64]
                      ELSE IF Cardinality(DOMAIN cpu_contention) >= ContentionMaxEntries
                           THEN cpu_contention
                           ELSE cpu_contention @@ (k :> 1)
                /\ k # r
                /\ r \in DOMAIN cpu_contention' <=> r \in DOMAIN cpu_contention
                /\ r \in DOMAIN cpu_contention => cpu_contention'[r] = cpu_contention[r]
      ]_vars

\* C6 witness: 7 -> 42 was seen twice and counted twice; 42 -> 7 was seen once,
\* found the table full and has no counter.
C6_Witness ==
    /\ ContentionCalls(7, 42) = 2
    /\ ContentionCalls(42, 7) = 1
    /\ DOMAIN cpu_contention = {PairKey(7, 42)}
    /\ cpu_contention[PairKey(7, 42)] = 2

\* C7: every invocation returns 0, and while events remain to be delivered
\* both handlers accept every input in every state (no path blocks or fails).
C7_AlwaysReturnsZero ==
    /\ retval = 0
    /\ Len(log) < MaxEvents =>
          /\ \A cpu \in Cpus, ts \in Timestamps, prev_pid \in Pids, next_pid \in Pids,
                task \in Tasks :
                prev_pid # next_pid =>
                    ENABLED handle_sched_switch(cpu, ts, prev_pid, next_pid, task)
          /\ \A pid \in Pids, task \in Tasks : ENABLED record_fault(pid, task)

\* C7 witness: a fault event for pid 0, a resolution that failed (the sentinel
\* is stored) and a refused insert have all happened, and 0 was returned.
C7_Witness ==
    /\ Len(log) = 3
    /\ \E i \in 1..Len(log) : IsFault(log[i]) /\ log[i].pid = 0
    /\ \E k \in DOMAIN page_faults : page_faults[k].cgroup = Sentinel
    /\ IsFault(LastEvent) /\ LastEvent.pid # 0 /\ LastEvent.pid \notin DOMAIN page_faults
    /\ retval = 0

\* Scenario A: the log is the first n of the switch events (t=100, next=0),
\* (t=150, next=42), (t=400, next=7), all on CPU 0.
ScenarioA == <<[ts |-> 100, next_pid |-> 0], [ts |-> 150, next_pid |-> 42],
               [ts |-> 400, next_pid |-> 7]>>
InScenarioA(n) ==
    /\ Len(log) = n
    /\ \A i \in 1..n :
          /\ IsSwitch(log[i])
          /\ log[i].cpu = 0
          /\ log[i].ts = ScenarioA[i].ts
          /\ log[i].next_pid = ScenarioA[i].next_pid

\* C8 as claimed: in Scenario A the event at t=100 updates no pid_stats entry
\* and the event at t=150 adds 50 to pid_stats[42].cpu_time_ns.
C8_Original ==
    /\ InScenarioA(1) => pid_stats = Empty
    /\ InScenarioA(2) => (42 \in DOMAIN pid_stats /\ pid_stats[42].cpu_time_ns = 50)

\* C8 amended: in Scenario A neither the event at t=100 nor the event at t=150
\* updates pid_stats (the stored pid is 0 at both); the event at t=400 creates
\* pid_stats[42] with cpu_time_ns = 250, the only entry.
C8_ScenarioA ==
    /\ InScenarioA(1) => pid_stats = Empty
    /\ InScenarioA(2) => pid_stats = Empty
    /\ InScenarioA(3) =>
          /\ DOMAIN pid_stats = {42}
          /\ pid_stats[42].cpu_time_ns = 250

\* C8 witness: Scenario A ran to its end, 42 handing over to 7 at t=400.
C8_Witness == InScenarioA(3) /\ log[3].prev_pid = 42

\* C9: with handlers run one at a time, a page_faults entry counts every fault
\* event of its pid, and every pid with a fault event has an entry when no
\* insert was refused; an entry created while resolution failed holds the
\* sentinel, and a sentinel stays whatever the resolver would return later.
C9_FaultCountAndStickySentinel ==
    [][ /\ \A e \in NonZeroPids :
              /\ e \in DOMAIN page_faults' => page_faults'[e].faults = FaultEvents(e)'
              /\ (PageFaultsNeverFull' /\ FaultEvents(e)' >= 1) => e \in DOMAIN page_faults'
        /\ \A pid \in NonZeroPids, task \in Tasks :
              (/\ record_fault(pid, task)
               /\ pid \notin DOMAIN page_faults
               /\ pid \in DOMAIN page_faults'
               /\ ~snapshot_cgroup(<<>>, CGROUP_LEN, task).ok)
              => page_faults'[pid].cgroup = Sentinel
        /\ \A pid \in DOMAIN page_faults :
              page_faults[pid].cgroup = Sentinel =>
                  (pid \in DOMAIN page_faults' /\ page_faults'[pid].cgroup = Sentinel)
      ]_vars

\* C9 witness: three fault events of one pid, counted 3, the sentinel stored.
C9_Witness ==
    \E e \in DOMAIN page_faults :
        /\ FaultEvents(e) = 3
        /\ page_faults[e].faults = 3
        /\ page_faults[e].cgroup = Sentinel

\* C10: a fault event changes none of pid_stats, cpu_contention and cpu_state;
\* a switch event does not change page_faults; and an insert or update a table
\* has room for is made whatever the fill of the other tables.
C10_TablesIndependent ==
    [][ log' # log =>
          LET e == log'[Len(log')]
          IN /\ IsFault(e) =>
                   /\ UNCHANGED <<pid_stats, cpu_contention, cpu_state>>
                   /\ (/\ e.pid # 0
                       /\ \/ e.pid \in DOMAIN page_faults
                          \/ Cardinality(DOMAIN page_faults) < PageFaultsMaxEntries) =>
                         /\ e.pid \in DOMAIN page_faults'
                         /\ page_faults'[e.pid].faults =
                               IF e.pid \in DOMAIN page_faults
                               THEN (page_faults[e.pid].faults + 1) % U64 ELSE 1
             /\ IsSwitch(e) =>
                   LET k == PairKey(e.prev_pid, e.next_pid)
                       x == cpu_state[e.cpu].pid
                       d == (e.ts - cpu_state[e.cpu].ts) % U64
                   IN /\ page_faults' = page_faults
                      /\ (/\ e.prev_pid # 0 /\ e.next_pid # 0
                          /\ \/ k \in DOMAIN cpu_contention
                             \/ Cardinality(DOMAIN cpu_contention) < ContentionMaxEntries) =>
                            /\ k \in DOMAIN cpu_contention'
                            /\ cpu_contention'[k] =
                                  IF k \in DOMAIN cpu_contention
                                  THEN (cpu_contention[k] + 1) % U64 ELSE 1
                      /\ (/\ x # 0
                          /\ \/ x \in DOMAIN pid_stats
                             \/ Cardinality(DOMAIN pid_stats) < PidStatsMaxEntries) =>
                            /\ x \in DOMAIN pid_stats'
                            /\ pid_stats'[x].cpu_time_ns =
                                  IF x \in DOMAIN pid_stats
                                  THEN (pid_stats[x].cpu_time_ns + d) % U64 ELSE d
      ]_vars

\* C10 witness: the last switch event's pair was refused by a full
\* cpu_contention, and the same event charged pid 42 its second interval.
C10_Witness ==
    /\ Len(log) = 3
    /\ IsSwitch(LastEvent)
    /\ LastEvent.prev_pid # 0 /\ LastEvent.next_pid # 0
    /\ PairKey(LastEvent.prev_pid, LastEvent.next_pid) \notin DOMAIN cpu_contention
    /\ Cardinality(DOMAIN cpu_contention) = ContentionMaxEntries
    /\ RanTimes(42) = 2
    /\ 42 \in DOMAIN pid_stats
    /\ pid_stats[42].cpu_time_ns = RanNs(42)

\* The switch event a step delivers, when it delivers one.
SwitchDelivered == log' # log /\ IsSwitch(log'[Len(log')])

\* C11: every context-switch event on a CPU leaves that CPU's slot equal to
\* (next_pid, ts) of the event, whatever the stored pid was and whatever the
\* two map updates answered, and leaves the slots of the other CPUs unchanged.
C11_UnitStateAlwaysUpdated ==
    [][ SwitchDelivered =>
          LET e == log'[Len(log')]
          IN cpu_state' = [cpu_state EXCEPT ![e.cpu] = [pid |-> e.next_pid, ts |-> e.ts]]
      ]_vars

\* C11 witness: the last event found pid_stats full without the stored pid
\* and cpu_contention full without its pair, and the slot holds its
\* (next_pid, ts) all the same.
C11_Witness ==
    /\ Len(log) = 3
    /\ IsSwitch(LastEvent)
    /\ LET s == SwitchesOn(LastEvent.cpu)
       IN /\ Len(s) >= 2
          /\ s[Len(s) - 1].next_pid # 0
          /\ s[Len(s) - 1].next_pid \notin DOMAIN pid_stats
    /\ Cardinality(DOMAIN pid_stats) = PidStatsMaxEntries
    /\ LastEvent.prev_pid # 0 /\ LastEvent.next_pid # 0
    /\ PairKey(LastEvent.prev_pid, LastEvent.next_pid) \notin DOMAIN cpu_contention
    /\ Cardinality(DOMAIN cpu_contention) = ContentionMaxEntries
    /\ cpu_state[LastEvent.cpu] = [pid |-> LastEvent.next_pid, ts |-> LastEvent.ts]

\* Scenario A with the outgoing pids a CPU that misses no event reports:
\* each event's prev_pid is the next_pid of the event before.
InScenarioAChained(n) ==
    /\ InScenarioA(n)
    /\ n >= 1 => log[1].prev_pid # 0
    /\ \A i \in 2..n : log[i].prev_pid = log[i - 1].next_pid

\* C12: a context-switch event changes pid_stats at no key other than the
\* pid its CPU's slot held before the event (no other key is created, removed
\* or changed, the incoming pid included); and in Scenario A the event at
\* t=400 leaves pid 7 without an entry and takes the counter of (42 << 32) | 7
\* from absent to 1.
C12_OnlyStoredPidCharged ==
    /\ [][ SwitchDelivered =>
             LET e == log'[Len(log')]
             IN \A k \in (DOMAIN pid_stats) \cup (DOMAIN pid_stats') :
                   k # cpu_state[e.cpu].pid =>
                       /\ k \in DOMAIN pid_stats
                       /\ k \in DOMAIN pid_stats'
                       /\ pid_stats'[k] = pid_stats[k]
         ]_vars
    /\ [](InScenarioAChained(2) => PairKey(42, 7) \notin DOMAIN cpu_contention)
    /\ [](InScenarioAChained(3) =>
             /\ 7 \notin DOMAIN pid_stats
             /\ PairKey(42, 7) \in DOMAIN cpu_contention
             /\ cpu_contention[PairKey(42, 7)] = 1)

\* C12 witness: Scenario A ran to its end; pid 42 has its entry, pid 7 none,
\* and the pair 42 -> 7 was counted once.
C12_Witness ==
    /\ InScenarioAChained(3)
    /\ DOMAIN pid_stats = {42}
    /\ cpu_contention = (PairKey(42, 7) :> 1)

\* Every link task -> cgroups -> dfl_cgrp -> kn is there.
ChainPresent(t) == t.has_task /\ t.has_cset /\ t.has_cgrp /\ t.has_kn

\* A name that is present and non-empty.
NamePresent(n) == n.ptr = "ok" /\ n.str # <<>>

\* What fits a buffer of `len` bytes, the terminating NUL included.
Truncated(str, len) == SubSeq(str, 1, Min(Len(str), len - 1))

\* C13: snapshot_cgroup returns true with the leaf name exactly when the whole
\* chain is there and the leaf name is present and non-empty; when the leaf
\* name is absent or empty it returns true with the parent's name if the
\* parent node and a non-empty parent name are there; in every other case it
\* returns false; and the grandparent's name has no influence on the outcome.
C13_ResolverContract ==
    resolver.at \in {"failed", "done"} =>
        LET t == resolver.task
            leafOK == ChainPresent(t) /\ NamePresent(t.leaf)
            parentOK == /\ ChainPresent(t)
                        /\ ~NamePresent(t.leaf)
                        /\ t.has_parent
                        /\ NamePresent(t.parent)
        IN /\ resolver.ok <=> (leafOK \/ parentOK)
           /\ (resolver.ok /\ leafOK) => resolver.buf = Truncated(t.leaf.str, resolver.len)
           /\ (resolver.ok /\ parentOK) => resolver.buf = Truncated(t.parent.str, resolver.len)
           /\ \A g \in GrandNames :
                 snapshot_cgroup(<<>>, resolver.len, [t EXCEPT !.grand = g])
                     = snapshot_cgroup(<<>>, resolver.len, t)

\* C14: the cgroup of every pid_stats entry and of every page_faults entry is
\* non-empty once the event that created or updated it has returned.
C14_GroupPathNeverEmpty ==
    AllIdle =>
        /\ \A k \in DOMAIN pid_stats : pid_stats[k].cgroup # <<>>
        /\ \A k \in DOMAIN page_faults : page_faults[k].cgroup # <<>>

\* C15: on an event that finds its entry, the cgroup afterwards is what the
\* resolver (or the placeholder) gives for the current task if the stored
\* cgroup was empty, and the stored cgroup otherwise; the comm afterwards is
\* the current task's comm if the stored comm was empty, and the stored comm
\* otherwise; for pid_stats and, without comm, for page_faults.
C15_RetryOnlyWhileEmpty ==
    [][ log' # log =>
          LET e == log'[Len(log')]
          IN \A task \in Tasks :
                /\ (/\ IsSwitch(e)
                    /\ handle_sched_switch(e.cpu, e.ts, e.prev_pid, e.next_pid, task)
                    /\ cpu_state[e.cpu].pid \in DOMAIN pid_stats) =>
                      LET k == cpu_state[e.cpu].pid
                      IN /\ pid_stats'[k].cgroup =
                               IF pid_stats[k].cgroup = <<>>
                               THEN resolve_or_placeholder(<<>>, CGROUP_LEN, task)
                               ELSE pid_stats[k].cgroup
                         /\ pid_stats'[k].comm =
                               IF pid_stats[k].comm = <<>>
                               THEN bpf_get_current_comm(COMM_LEN, task)
                               ELSE pid_stats[k].comm
                /\ (/\ IsFault(e)
                    /\ record_fault(e.pid, task)
                    /\ e.pid \in DOMAIN page_faults) =>
                      page_faults'[e.pid].cgroup =
                          IF page_faults[e.pid].cgroup = <<>>
                          THEN resolve_or_placeholder(<<>>, CGROUP_LEN, task)
                          ELSE page_faults[e.pid].cgroup
      ]_vars

\* C15 witness: an entry created with an empty comm and the cgroup "sys" (the
\* task that has the one has the other) was hit with another task current:
\* the comm was captured then, the cgroup was not resolved again.
C15_Witness ==
    \E k \in DOMAIN pid_stats :
        /\ RanTimes(k) = 2
        /\ pid_stats[k].comm = <<"s", "h">>
        /\ pid_stats[k].cgroup = <<"s", "y", "s">>

\* A character field of the entry at `key` that is non-empty in `tab` is the
\* same in `tab2`, and the entry is still there.
FieldKept(tab, tab2, key, field) ==
    tab[key][field] # <<>> => (key \in DOMAIN tab2 /\ tab2[key][field] = tab[key][field])

\* C16: with the handlers of different CPUs interleaved between their map
\* operations, a cgroup or comm that is non-empty in a table (the sentinel
\* included) is never replaced by a different value by any step.
C16_FrozenUnderInterleaving ==
    [][ /\ \A k \in DOMAIN page_faults : FieldKept(page_faults, page_faults', k, "cgroup")
        /\ \A k \in DOMAIN pid_stats :
              /\ FieldKept(pid_stats, pid_stats', k, "cgroup")
              /\ FieldKept(pid_stats, pid_stats', k, "comm")
      ]_vars

\* The clock never ran backwards: the timestamps of the switch events do not
\* decrease along the log.
MonotoneClock ==
    \A i \in 1..Len(log), j \in 1..Len(log) :
        (i < j /\ IsSwitch(log[i]) /\ IsSwitch(log[j])) => log[i].ts <= log[j].ts

\* C17: with the handlers of different CPUs interleaved between their map
\* operations, no step removes a key from cpu_contention, page_faults or
\* pid_stats, no step lowers a cpu_contention count or a faults count, and,
\* while the clock never ran backwards, no step lowers a cpu_time_ns.  (The
\* counters stay far below 2^64: MaxEvents increments, or intervals between
\* non-decreasing timestamps.)
C17_CountersMonotonic ==
    [][ /\ \A k \in DOMAIN cpu_contention :
              /\ k \in DOMAIN cpu_contention'
              /\ cpu_contention'[k] >= cpu_contention[k]
        /\ \A k \in DOMAIN page_faults :
              /\ k \in DOMAIN page_faults'
              /\ page_faults'[k].faults >= page_faults[k].faults
        /\ \A k \in DOMAIN pid_stats :
              /\ k \in DOMAIN pid_stats'
              /\ MonotoneClock' => pid_stats'[k].cpu_time_ns >= pid_stats[k].cpu_time_ns
      ]_vars

\* C18 as claimed: on a CPU whose slot holds pid 0 (as it does before the
\* CPU's first event), a switch event with non-zero prev_pid and next_pid
\* increments the counter of (prev_pid << 32) | next_pid, creating it with 1
\* when absent, and leaves pid_stats unchanged.
C18_Original ==
    [][ SwitchDelivered =>
          LET e == log'[Len(log')]
              k == PairKey(e.prev_pid, e.next_pid)
          IN (cpu_state[e.cpu].pid = 0 /\ e.prev_pid # 0 /\ e.next_pid # 0) =>
                /\ pid_stats' = pid_stats
                /\ cpu_contention' = IF k \in DOMAIN cpu_contention
                                     THEN [cpu_contention EXCEPT ![k] = (@ + 1) % U64]
                                     ELSE cpu_contention @@ (k :> 1)
      ]_vars

\* C18 amended: the same, except that an absent pair is created only when
\* cpu_contention is not full (when it is full nothing is counted); and
\* whatever the slot holds, the only cpu_contention key a switch event can touch
\* is the pair of its own prev_pid and next_pid.
C18_KeyedOnEventNotOnSlot ==
    [][ SwitchDelivered =>
          LET e == log'[Len(log')]
              k == PairKey(e.prev_pid, e.next_pid)
              counted == IF k \in DOMAIN cpu_contention
                         THEN [cpu_contention EXCEPT ![k] = (@ + 1) % U64]
                         ELSE IF Cardinality(DOMAIN cpu_contention) >= ContentionMaxEntries
                              THEN cpu_contention
                              ELSE cpu_contention @@ (k :> 1)
          IN /\ cpu_contention' = IF e.prev_pid # 0 /\ e.next_pid # 0
                                  THEN counted ELSE cpu_contention
             /\ cpu_state[e.cpu].pid = 0 => pid_stats' = pid_stats
      ]_vars

\* C18 witness: the last event is the first one its CPU saw; its pair, known
\* from the other CPU, was counted a second time, and pid_stats is still empty.
C18_Witness ==
    /\ Len(log) >= 2
    /\ IsSwitch(LastEvent)
    /\ Len(SwitchesOn(LastEvent.cpu)) = 1
    /\ LastEvent.prev_pid # 0 /\ LastEvent.next_pid # 0
    /\ PairKey(LastEvent.prev_pid, LastEvent.next_pid) \in DOMAIN cpu_contention
    /\ cpu_contention[PairKey(LastEvent.prev_pid, LastEvent.next_pid)] = 2
    /\ pid_stats = Empty

\* ts - prevTs as an unsigned 64-bit difference: the true difference when
\* ts >= prevTs, the difference plus 2^64 when ts < prevTs.
WrappedDifference(ts, prevTs) == IF ts >= prevTs THEN ts - prevTs ELSE ts - prevTs + U64

\* C19 as claimed: a switch event at ts on a CPU whose slot holds (p, prevTs),
\* p # 0, adds the wrapped difference to pid_stats[p].cpu_time_ns (an absent
\* entry counting as 0), the sum taken mod 2^64.
C19_Original ==
    [][ SwitchDelivered =>
          LET e == log'[Len(log')]
              p == cpu_state[e.cpu].pid
              d == WrappedDifference(e.ts, cpu_state[e.cpu].ts)
          IN p # 0 =>
                /\ p \in DOMAIN pid_stats'
                /\ pid_stats'[p].cpu_time_ns =
                      ((IF p \in DOMAIN pid_stats THEN pid_stats[p].cpu_time_ns ELSE 0) + d) % U64
      ]_vars

\* C19 amended: the same, except when p has no entry and pid_stats is full:
\* then nothing is recorded and pid_stats is unchanged.
C19_UnsignedDeltaNoClamp ==
    [][ SwitchDelivered =>
          LET e == log'[Len(log')]
              p == cpu_state[e.cpu].pid
              d == WrappedDifference(e.ts, cpu_state[e.cpu].ts)
          IN p # 0 =>
                IF p \notin DOMAIN pid_stats /\ Cardinality(DOMAIN pid_stats) >= PidStatsMaxEntries
                THEN pid_stats' = pid_stats
                ELSE /\ p \in DOMAIN pid_stats'
                     /\ pid_stats'[p].cpu_time_ns =
                           ((IF p \in DOMAIN pid_stats THEN pid_stats[p].cpu_time_ns ELSE 0) + d) % U64
      ]_vars

\* C19 witness: a pid that ran once, from t=400 to an event stamped t=100, is
\* charged 2^64 - 300.
C19_Witness ==
    \E k \in DOMAIN pid_stats :
        /\ RanTimes(k) = 1
        /\ \E c \in Cpus :
              LET s == SwitchesOn(c)
              IN \E i \in 1..(Len(s) - 1) :
                    s[i].next_pid = k /\ s[i].ts = 400 /\ s[i + 1].ts = 100
        /\ pid_stats[k].cpu_time_ns = U64 - 300

\* C20: in every state, also with the handlers of different CPUs interleaved,
\* pid_stats, cpu_contention and page_faults hold at most their max_entries
\* keys, and cpu_state has exactly one slot per CPU.
C20_TablesWithinCapacity ==
    /\ Cardinality(DOMAIN pid_stats) <= PidStatsMaxEntries
    /\ Cardinality(DOMAIN cpu_contention) <= ContentionMaxEntries
    /\ Cardinality(DOMAIN page_faults) <= PageFaultsMaxEntries
    /\ DOMAIN cpu_state = Cpus

\* C20 witness: fault events of two pids were handled and page_faults holds
\* its maximum, one insert having been refused; cpu_contention is full too.
C20_Witness ==
    /\ AllIdle
    /\ Cardinality({x \in NonZeroPids : FaultEvents(x) > 0}) > PageFaultsMaxEntries
    /\ Cardinality(DOMAIN page_faults) = PageFaultsMaxEntries
    /\ Cardinality(DOMAIN cpu_contention) = ContentionMaxEntries

=============================================================================
